---- MODULE Spec2Model ----
(***************************************************************************)
(* Task distribution and claim coordination of the GeM bid extractor:      *)
(* the producer (workers/producer.py), the Redis list transport            *)
(* (utils/redis_helpers.py), the claiming worker (workers/consumer.py)     *)
(* and the Redis worker (workers/consumer_redis.py), all acting on the     *)
(* rows of the `bids` table.                                               *)
(*                                                                         *)
(* utils/db_helpers.py (mark_done, mark_failed, mark_error) and            *)
(* redis_helpers.pop_message_list are called by the sources but are not    *)
(* part of them; they are modelled from the design document (sections 4.1  *)
(* and 4.2) and from the arguments their callers pass.                     *)
(***************************************************************************)
EXTENDS Integers, Sequences, FiniteSets

\* ------------------------------------------------------------- bounds
NumItems == 2
NumWorkers == 2
MaxQueue == 2
MaxAttempts == 4
MaxBatch == 2

\* ------------------------------------------------- program constants
RETRY_LIMIT == 3
QUEUED_TODAYSCAN == 3
WORKER_ID == "worker-local"

NULL == "NULL"
NoTask == 0

Items == 1..NumItems
Workers == 1..NumWorkers

\* The producer processes. master_extraction / master_gem_extraction start one
\* (TheProducer); an operator may start workers/producer.py a second time.
Producers == {"producer-1", "producer-2"}
TheProducer == "producer-1"

VARIABLES
    bids,        \* the bids table: id -> row
    queue,       \* the Redis list gem_tasks, index 1 is the left end
    batch_size,  \* the producer's --batch argument
    ppc,         \* each producer's position in run_loop
    prows,       \* the ids fetch_and_mark_batch returned to each producer
    wpc,         \* each worker's position in its loop
    wtask,       \* the descriptor a worker is handling (the row id it names)
    pending,     \* stream mode: the entries delivered to a consumer and not acked
    pushed,      \* transport alone: how many tasks were pushed (they are numbered)
    popped,      \* transport alone: the tasks the pops returned, in order
    file,        \* dashboard/status.json: a document, or missing, or torn
    spc,         \* the position of the status helper that is running
    sdata,       \* the document the running helper is writing
    tries,       \* _atomic_write: the attempts of the running helper so far
    sret,        \* what the helper that ran last returned
    sidx,        \* how many helpers of the caller's status block are behind it
    once,        \* the producer's --once argument
    calls,       \* status alone: the events a client has pushed (numbered)
    evlog,       \* status alone: the events whose push_recent returned True
    mpc,         \* the master: where monitor_queue_and_wait / main stands
    last_len,    \* monitor_queue_and_wait: the previous reading
    stable,      \* monitor_queue_and_wait: the stable counter
    zeros,       \* the successful readings of 0 in a row that equal the previous one
    ipc,         \* concurrent helpers: each process's position in its helper
    idoc,        \* concurrent helpers: the document each process is about to write
    applied      \* concurrent helpers: the deltas whose increment returned True

\* The master's monitor.
mon == <<mpc, last_len, stable, zeros>>

\* The status helpers called from several processes.
conc == <<ipc, idoc, applied>>

\* monitor_queue_and_wait: last_len = None, no reading yet.
NoLength == 0 - 1

\* The dashboard status and the producer's --once.
dash == <<file, spc, sdata, tries, sret, sidx, once, mon, conc, calls, evlog>>

\* What the list-mode pipeline never touches.
aside == <<pending, pushed, popped, dash>>

vars == <<bids, queue, batch_size, ppc, prows, wpc, wtask, aside>>

\* The state of everything the list-mode pipeline does not use.
AsideInit ==
    /\ pending = {}
    /\ pushed = 0
    /\ popped = <<>>
    /\ file = [text |-> "missing", enqueued |-> 0, in_progress |-> 0,
          processed |-> 0, done |-> 0, failed |-> 0, recent |-> <<>>]
    /\ spc = "idle"
    /\ sdata = [text |-> "missing", enqueued |-> 0, in_progress |-> 0,
          processed |-> 0, done |-> 0, failed |-> 0, recent |-> <<>>]
    /\ tries = 0
    /\ sret = FALSE
    /\ sidx = 0
    /\ once = FALSE
    /\ calls = 0
    /\ evlog = <<>>
    /\ mpc = "polling"
    /\ last_len = NoLength
    /\ stable = 0
    /\ zeros = 0
    /\ ipc = [q \in Producers |-> "idle"]
    /\ idoc = [q \in Producers |-> [text |-> "missing", enqueued |-> 0, in_progress |-> 0,
          processed |-> 0, done |-> 0, failed |-> 0, recent |-> <<>>]]
    /\ applied = 0

\* ------------------------------------------------------------ helpers
Min(a, b) == IF a < b THEN a ELSE b

RECURSIVE SortedSeq(_)
\* The rows of a result set in primary-key order.
SortedSeq(S) ==
    IF S = {} THEN <<>>
    ELSE LET m == CHOOSE x \in S : \A y \in S : x <= y
         IN <<m>> \o SortedSeq(S \ {m})

\* A row as discovery inserts it.
NewRow == [status |-> "new", todayscan |-> 0, locked_by |-> NULL, attempts |-> 0]

\* ------------------------------------------------- the Work Store (SQL)
\* producer.py: SELECT ... FROM bids WHERE todayscan = 0 LIMIT %s FOR UPDATE
SelectForUpdate(b) == {i \in Items : b[i].todayscan = 0}

\* producer.py: UPDATE bids SET todayscan = 3, status = 'queued' WHERE id IN (ids)
MarkQueued(b, ids) ==
    [i \in Items |->
        IF i \in ids
        THEN [b[i] EXCEPT !.todayscan = QUEUED_TODAYSCAN, !.status = "queued"]
        ELSE b[i]]

\* A revert that resets the marker and forgets the status column.
revert_rows_keep_status(b, ids) ==
    [i \in Items |->
        IF i \in ids THEN [b[i] EXCEPT !.todayscan = 0] ELSE b[i]]

\* producer.py: UPDATE bids SET todayscan = 0, status = 'new' WHERE id IN (ids)
revert_rows_to_new(b, ids) ==
    [i \in Items |->
        IF i \in ids
        THEN [b[i] EXCEPT !.todayscan = 0, !.status = "new"]
        ELSE b[i]]

\* A claiming WHERE clause without the status condition.
ClaimWhereAnyStatus(r) == r.todayscan = 0

\* consumer.py: the WHERE clause of the claiming UPDATE.
ClaimWhere(r) ==
    r.todayscan = 0 /\ r.status \in {"new", "queued", "failed"}

\* consumer.py: the SET clause of the claiming UPDATE.
ClaimSet(r, worker_id) ==
    [r EXCEPT !.status = "processing",
              !.locked_by = worker_id,
              !.attempts = r.attempts + 1]

\* db_helpers.mark_done: the row becomes done and is no longer held.
mark_done(b, i) ==
    [b EXCEPT ![i].status = "done", ![i].locked_by = NULL]

\* db_helpers.mark_failed: the row becomes failed and is no longer held. Whether
\* it may be retried is read off the row: see NonRetryable.
mark_failed(b, i, max_attempts) ==
    [b EXCEPT ![i].status = "failed", ![i].locked_by = NULL]

\* A failed row whose attempts have reached max_attempts is closed for good.
NonRetryable(r, max_attempts) ==
    r.status = "failed" /\ r.attempts >= max_attempts

\* db_helpers.mark_error(bid, err_msg, increment_attempts, release_lock)
mark_error(b, i, increment_attempts, release_lock) ==
    [b EXCEPT ![i].status = "failed",
              ![i].attempts = IF increment_attempts THEN @ + 1 ELSE @,
              ![i].locked_by = IF release_lock THEN NULL ELSE @]

\* consumer_redis.py: UPDATE bids SET attempts = COALESCE(attempts, 0) + 1
safe_increment_attempts(b, i) ==
    [b EXCEPT ![i].attempts = @ + 1]

\* ------------------------------------------------ the Queue Transport
\* A bulk enqueue that appends at the right end (RPUSH).
enqueue_batch_rpush(q, tasks) == q \o tasks

\* A pop that returns the right end and removes nothing.
BrpopKeep(q) == q

\* redis_helpers.enqueue_task: LPUSH of one task.
enqueue_task(q, task) == <<task>> \o q

\* redis_helpers.enqueue_batch: one LPUSH per task, in the order of the rows.
RECURSIVE enqueue_batch(_, _)
enqueue_batch(q, tasks) ==
    IF tasks = <<>> THEN q
    ELSE enqueue_batch(<<Head(tasks)>> \o q, Tail(tasks))

\* redis_helpers.pop_task / consumer_redis.consumer_loop: BRPOP takes the
\* right end of the list.
BrpopValue(q) == q[Len(q)]
BrpopRest(q) == SubSeq(q, 1, Len(q) - 1)

\* redis_helpers.pop_message_list(timeout): the list-mode pop of consumer.py.
PopMessageValue(q) == BrpopValue(q)
PopMessageRest(q) == BrpopRest(q)

\* ------------------------------------------------------------- Init
Init ==
    /\ bids = [i \in Items |-> NewRow]
    /\ queue = <<>>
    /\ batch_size = MaxBatch
    /\ ppc = [p \in Producers |-> "select"]
    /\ prows = [p \in Producers |-> {}]
    /\ wpc = [w \in Workers |-> "idle"]
    /\ wtask = [w \in Workers |-> NoTask]
    /\ AsideInit

\* ---------------------------------------------------------- Producer
\* run_loop -> fetch_and_mark_batch: one transaction selects up to batch_size
\* rows with todayscan = 0 and marks them queued; no row: rollback.
P_FetchAndMark(p) ==
    /\ ppc[p] = "select"
    /\ \E rows \in SUBSET SelectForUpdate(bids) :
        /\ Cardinality(rows) = Min(batch_size, Cardinality(SelectForUpdate(bids)))
        /\ IF rows = {}
           THEN /\ ppc' = [ppc EXCEPT ![p] = "end_empty"]
                /\ UNCHANGED <<bids, prows>>
           ELSE /\ bids' = MarkQueued(bids, rows)
                /\ prows' = [prows EXCEPT ![p] = rows]
                /\ ppc' = [ppc EXCEPT ![p] = "publish"]
    /\ UNCHANGED <<queue, batch_size, aside, wpc, wtask>>

\* What pipe.execute() can do: push all and answer, raise before anything was
\* sent, or raise after the server ran the MULTI/EXEC block.
PushOutcomes == {"ok", "error_not_pushed", "error_pushed"}

\* run_loop -> push_tasks_to_redis -> enqueue_batch
P_Push(p) ==
    /\ ppc[p] = "publish"
    /\ Len(queue) + Cardinality(prows[p]) <= MaxQueue
    /\ \E o \in PushOutcomes :
        /\ queue' = IF o = "error_not_pushed" THEN queue
                    ELSE enqueue_batch(queue, SortedSeq(prows[p]))
        /\ ppc' = [ppc EXCEPT ![p] = IF o = "ok" THEN "end_ok" ELSE "revert"]
    /\ UNCHANGED <<bids, batch_size, aside, prows, wpc, wtask>>

\* run_loop: push failed -> revert_rows_to_new(conn, ids)
P_Revert(p) ==
    /\ ppc[p] = "revert"
    /\ bids' = revert_rows_to_new(bids, prows[p])
    /\ ppc' = [ppc EXCEPT ![p] = "end_reverted"]
    /\ UNCHANGED <<queue, batch_size, aside, prows, wpc, wtask>>

\* run_loop: close the connection, sleep, next iteration.
P_Loop(p) ==
    /\ ppc[p] \in {"end_empty", "end_ok", "end_reverted"}
    /\ ppc' = [ppc EXCEPT ![p] = "select"]
    /\ prows' = [prows EXCEPT ![p] = {}]
    /\ UNCHANGED <<bids, queue, batch_size, aside, wpc, wtask>>

Producer(p) == P_FetchAndMark(p) \/ P_Push(p) \/ P_Revert(p) \/ P_Loop(p)

\* ------------------------------------------- Worker (workers/consumer.py)
\* run_worker, list mode: pop one message; an empty list is a timeout and the
\* loop polls again.
W_Pop(w) ==
    /\ wpc[w] = "idle"
    /\ queue /= <<>>
    /\ wtask' = [wtask EXCEPT ![w] = PopMessageValue(queue)]
    /\ queue' = PopMessageRest(queue)
    /\ wpc' = [wpc EXCEPT ![w] = "claim"]
    /\ UNCHANGED <<bids, batch_size, aside, ppc, prows>>

\* process_task step 1 -> attempt_claim_by_bid: one conditional UPDATE; the
\* row is returned when rowcount is not 0, None otherwise.
attempt_claim_by_bid(w) ==
    /\ wpc[w] = "claim"
    /\ IF ClaimWhere(bids[wtask[w]])
       THEN /\ bids[wtask[w]].attempts < MaxAttempts
            /\ bids' = [bids EXCEPT ![wtask[w]] = ClaimSet(@, WORKER_ID)]
            /\ wpc' = [wpc EXCEPT ![w] = "download"]
       ELSE /\ wpc' = [wpc EXCEPT ![w] = "end_rejected"]
            /\ UNCHANGED bids
    /\ UNCHANGED <<queue, batch_size, aside, ppc, prows, wtask>>

\* process_task step 2: safe_filename_for_bid (os.makedirs, outside any try)
\* and download_pdf, which answers (ok, msg) and never raises.
DownloadOutcomes == {"ok", "download_error", "makedirs_raises"}

W_Download(w) ==
    /\ wpc[w] = "download"
    /\ \E o \in DownloadOutcomes :
        /\ bids' = IF o = "download_error"
                   THEN mark_failed(bids, wtask[w], RETRY_LIMIT)
                   ELSE bids
        /\ wpc' = [wpc EXCEPT ![w] =
                     CASE o = "ok" -> "parse"
                       [] o = "download_error" -> "end_failed"
                       [] OTHER -> "end_raised"]
    /\ UNCHANGED <<queue, batch_size, aside, ppc, prows, wtask>>

\* process_task step 3: import the parser, os.makedirs of the output folder
\* (outside any try), extract_pdf_to_json; every failure the code catches or
\* tests for (parser_missing, parser_exception, parser_bad_result,
\* parser_failed) calls mark_failed.
ParseOutcomes == {"ok", "parser_failed", "makedirs_raises"}

W_Parse(w) ==
    /\ wpc[w] = "parse"
    /\ \E o \in ParseOutcomes :
        /\ bids' = IF o = "parser_failed"
                   THEN mark_failed(bids, wtask[w], RETRY_LIMIT)
                   ELSE bids
        /\ wpc' = [wpc EXCEPT ![w] =
                     CASE o = "ok" -> "mark_done"
                       [] o = "parser_failed" -> "end_failed"
                       [] OTHER -> "end_raised"]
    /\ UNCHANGED <<queue, batch_size, aside, ppc, prows, wtask>>

\* process_task step 4, first write: db_helpers.mark_done; if it raises, the
\* except branch calls mark_failed.
PersistOutcomes == {"ok", "raises"}

W_MarkDone(w) ==
    /\ wpc[w] = "mark_done"
    /\ \E o \in PersistOutcomes :
        /\ bids' = IF o = "ok"
                   THEN mark_done(bids, wtask[w])
                   ELSE mark_failed(bids, wtask[w], RETRY_LIMIT)
        /\ wpc' = [wpc EXCEPT ![w] = IF o = "ok" THEN "upsert" ELSE "end_failed"]
    /\ UNCHANGED <<queue, batch_size, aside, ppc, prows, wtask>>

\* process_task step 4, second write: db_helpers.upsert_final_bid (another
\* table); if it raises, the same except branch calls mark_failed.
W_Upsert(w) ==
    /\ wpc[w] = "upsert"
    /\ \E o \in PersistOutcomes :
        /\ bids' = IF o = "ok"
                   THEN bids
                   ELSE mark_failed(bids, wtask[w], RETRY_LIMIT)
        /\ wpc' = [wpc EXCEPT ![w] = IF o = "ok" THEN "end_done" ELSE "end_failed"]
    /\ UNCHANGED <<queue, batch_size, aside, ppc, prows, wtask>>

WorkerEnds == {"end_rejected", "end_done", "end_failed", "end_raised"}

\* A loop that an exception out of process_task ends.
W_LoopUnlessRaised(w) ==
    /\ wpc[w] \in WorkerEnds \ {"end_raised"}
    /\ wpc' = [wpc EXCEPT ![w] = "idle"]
    /\ wtask' = [wtask EXCEPT ![w] = NoTask]
    /\ UNCHANGED <<bids, queue, batch_size, aside, ppc, prows>>

\* run_worker: process_task returned, or raised into `except Exception`
\* (sleep 2); the loop takes the next message.
W_Loop(w) ==
    /\ wpc[w] \in WorkerEnds
    /\ wpc' = [wpc EXCEPT ![w] = "idle"]
    /\ wtask' = [wtask EXCEPT ![w] = NoTask]
    /\ UNCHANGED <<bids, queue, batch_size, aside, ppc, prows>>

run_worker(w) ==
    \/ W_Pop(w)
    \/ attempt_claim_by_bid(w)
    \/ W_Download(w)
    \/ W_Parse(w)
    \/ W_MarkDone(w)
    \/ W_Upsert(w)
    \/ W_Loop(w)

Next == Producer(TheProducer) \/ \E w \in Workers : run_worker(w)

Spec == Init /\ [][Next]_vars

\* ------------------------------------ Worker (workers/consumer_redis.py)
\* consumer_loop: BRPOP one payload; a timeout polls again. There is no claim:
\* process_task starts with the download.
R_Pop(w) ==
    /\ wpc[w] = "idle"
    /\ queue /= <<>>
    /\ wtask' = [wtask EXCEPT ![w] = BrpopValue(queue)]
    /\ queue' = BrpopRest(queue)
    /\ wpc' = [wpc EXCEPT ![w] = "download"]
    /\ UNCHANGED <<bids, batch_size, aside, ppc, prows>>

\* process_task 1) download_pdf_stream; None after its retries: the worker
\* calls safe_increment_attempts and then mark_error.
R_Download(w) ==
    /\ wpc[w] = "download"
    /\ \E o \in {"ok", "download_failed"} :
        IF o = "ok"
        THEN /\ wpc' = [wpc EXCEPT ![w] = "extract"]
             /\ UNCHANGED bids
        ELSE /\ bids[wtask[w]].attempts + 2 <= MaxAttempts
             /\ bids' = safe_increment_attempts(bids, wtask[w])
             /\ wpc' = [wpc EXCEPT ![w] = "mark_error"]
    /\ UNCHANGED <<queue, batch_size, aside, ppc, prows, wtask>>

\* process_task 2) process_single_pdf_file_deep; ok false or an exception:
\* safe_increment_attempts and then mark_error.
R_Extract(w) ==
    /\ wpc[w] = "extract"
    /\ \E o \in {"ok", "extract_failed"} :
        IF o = "ok"
        THEN /\ wpc' = [wpc EXCEPT ![w] = "mark_done"]
             /\ UNCHANGED bids
        ELSE /\ bids[wtask[w]].attempts + 2 <= MaxAttempts
             /\ bids' = safe_increment_attempts(bids, wtask[w])
             /\ wpc' = [wpc EXCEPT ![w] = "mark_error"]
    /\ UNCHANGED <<queue, batch_size, aside, ppc, prows, wtask>>

\* process_task 3) mark_done; if it raises, mark_error alone.
R_MarkDone(w) ==
    /\ wpc[w] = "mark_done"
    /\ \E o \in PersistOutcomes :
        IF o = "ok"
        THEN /\ bids' = mark_done(bids, wtask[w])
             /\ wpc' = [wpc EXCEPT ![w] = "end_done"]
        ELSE /\ bids[wtask[w]].attempts + 1 <= MaxAttempts
             /\ bids' = mark_error(bids, wtask[w], TRUE, FALSE)
             /\ wpc' = [wpc EXCEPT ![w] = "end_failed"]
    /\ UNCHANGED <<queue, batch_size, aside, ppc, prows, wtask>>

\* mark_error(bid, err_msg=..., increment_attempts=True, release_lock=False)
\* after safe_increment_attempts.
R_MarkError(w) ==
    /\ wpc[w] = "mark_error"
    /\ bids' = mark_error(bids, wtask[w], TRUE, FALSE)
    /\ wpc' = [wpc EXCEPT ![w] = "end_failed"]
    /\ UNCHANGED <<queue, batch_size, aside, ppc, prows, wtask>>

\* consumer_loop: the dashboard updates, then the next BRPOP.
R_Loop(w) ==
    /\ wpc[w] \in {"end_done", "end_failed"}
    /\ wpc' = [wpc EXCEPT ![w] = "idle"]
    /\ wtask' = [wtask EXCEPT ![w] = NoTask]
    /\ UNCHANGED <<bids, queue, batch_size, aside, ppc, prows>>

consumer_loop(w) ==
    \/ R_Pop(w)
    \/ R_Download(w)
    \/ R_Extract(w)
    \/ R_MarkDone(w)
    \/ R_MarkError(w)
    \/ R_Loop(w)

NextRedis == Producer(TheProducer) \/ \E w \in Workers : consumer_loop(w)

SpecRedis == Init /\ [][NextRedis]_vars

\* ------------------------------------------------ fair scheduling
\* The producer and every worker run as processes of their own and keep
\* taking steps; download and parser calls return; Redis does not refuse
\* every push for ever.
P_PushOk(p) == P_Push(p) /\ ppc'[p] = "end_ok"

FairSpec ==
    /\ Spec
    /\ WF_vars(Producer(TheProducer))
    /\ SF_vars(P_PushOk(TheProducer))
    /\ \A w \in Workers : WF_vars(run_worker(w))

\* ---------------------------------------------------------- properties
\* Worker w of consumer.py has claimed item i and has not yet written its
\* terminal state.
Holding(w, i) ==
    wtask[w] = i /\ wpc[w] \in {"download", "parse", "mark_done"}

\* Worker w of consumer_redis.py has fetched item i and is transforming or
\* persisting it.
RedisBusy(w, i) ==
    wtask[w] = i /\ wpc[w] \in {"extract", "mark_done"}

\* C1: mutual exclusion of claim. Two workers never both hold the same item,
\* and when workers race attempt_claim_by_bid on a queued item one of them
\* wins: it never happens that two workers were both rejected on an item that
\* is still queued.
C1_OneClaimWinner ==
    \A i \in Items : \A w1, w2 \in Workers :
        w1 /= w2 =>
            /\ ~(Holding(w1, i) /\ Holding(w2, i))
            /\ ~(/\ wtask[w1] = i /\ wpc[w1] = "end_rejected"
                 /\ wtask[w2] = i /\ wpc[w2] = "end_rejected"
                 /\ bids[i].status = "queued")

\* C2: duplicate delivery. When two descriptors of one item are delivered to
\* two workers, only one of them fetches and persists; the other descriptor
\* is a no-op, so two workers are never both past the fetch of the same item.
C2_DuplicateIsNoOp ==
    \A i \in Items : \A w1, w2 \in Workers :
        w1 /= w2 => ~(RedisBusy(w1, i) /\ RedisBusy(w2, i))

\* C3: once its claim has succeeded, a worker reaches the end of the task only
\* through mark_done or mark_failed; it never goes back to the loop through an
\* exception that skipped mark_failed.
C3_FailureAlwaysRecorded ==
    \A w \in Workers :
        (wpc[w] \in WorkerEnds /\ wpc[w] /= "end_rejected")
            => wpc[w] \in {"end_done", "end_failed"}

C5_HappyPath ==
    \A w \in Workers :
        wpc[w] = "end_rejected"
            => ~(/\ bids[wtask[w]].status = "queued"
                 /\ bids[wtask[w]].attempts = 0)

\* C6: attempt_claim_by_bid returns nothing only for a row that is processing,
\* done or terminally failed; a row that is new, queued or failed is claimed.
C6_ClaimableIsClaimed ==
    [][\A w \in Workers :
        (wpc[w] = "claim" /\ wpc'[w] = "end_rejected")
            => \/ bids[wtask[w]].status \in {"processing", "done"}
               \/ NonRetryable(bids[wtask[w]], RETRY_LIMIT)]_vars

\* C7: no item is lost. Under fair scheduling every row that is new eventually
\* is done or permanently failed.
C7_NoItemLost ==
    \A i \in Items :
        (bids[i].status = "new")
            ~> (bids[i].status = "done" \/ NonRetryable(bids[i], RETRY_LIMIT))

\* C8: lock owner. A processing row has a lock owner; a new or failed row has
\* none.
C8_LockOwner ==
    \A i \in Items :
        /\ bids[i].status = "processing" => bids[i].locked_by /= NULL
        /\ bids[i].status \in {"new", "failed"} => bids[i].locked_by = NULL

\* The edges of the row lifecycle (a claim may also start from new).
LifecycleEdge(a, b) ==
    \/ a = b
    \/ a = "new" /\ b \in {"queued", "processing"}
    \/ a = "queued" /\ b \in {"processing", "new"}
    \/ a = "processing" /\ b \in {"done", "failed"}
    \/ a = "failed" /\ b \in {"queued", "processing"}

\* C9: a row's status changes only along the lifecycle edges; in particular a
\* done row never changes status again.
C9_Lifecycle ==
    [][\A i \in Items : LifecycleEdge(bids[i].status, bids'[i].status)]_vars

\* The seed of the exhausted-retries scenario: every row has failed
\* max_attempts - 1 times and waits for the producer; nothing is in flight.
\* (Spec reaches this state.)
InitExhausted ==
    /\ bids = [i \in Items |->
                [status |-> "failed", todayscan |-> 0, locked_by |-> NULL,
                 attempts |-> RETRY_LIMIT - 1]]
    /\ queue = <<>>
    /\ batch_size = MaxBatch
    /\ ppc = [p \in Producers |-> "select"]
    /\ prows = [p \in Producers |-> {}]
    /\ wpc = [w \in Workers |-> "idle"]
    /\ wtask = [w \in Workers |-> NoTask]
    /\ AsideInit

SpecExhausted == InitExhausted /\ [][Next]_vars

\* C10: exhausted retries. An item seeded failed with
\* attempts = max_attempts - 1 and re-queued by the producer is taken by the
\* worker that receives its descriptor and, the fetch failing, ends failed
\* with attempts = max_attempts; the worker does not come back from the task
\* with the item still queued at max_attempts - 1.
C10_ExhaustedRetries ==
    \A w \in Workers :
        wpc[w] = "end_rejected"
            => ~(/\ bids[wtask[w]].status = "queued"
                 /\ bids[wtask[w]].attempts = RETRY_LIMIT - 1)

\* C11: bounded retries. attempts never exceeds max_attempts, and a row whose
\* attempts have reached max_attempts is neither claimed by a worker (its
\* status does not become processing) nor re-queued by the producer (its status
\* does not become queued).
C11_BoundedRetries ==
    [][\A i \in Items :
        /\ bids'[i].attempts <= RETRY_LIMIT
        /\ (bids[i].attempts >= RETRY_LIMIT /\ bids'[i].status /= bids[i].status)
              => bids'[i].status \notin {"processing", "queued"}]_vars

\* ------------------------------------------------ two producer processes
\* A SELECT that takes no row locks.
NoRowLocks(p) == {}

\* fetch_and_mark_batch statement by statement, for producers that run side by
\* side. SELECT ... FOR UPDATE row-locks what it returns until conn.commit();
\* these are the rows other producers' transactions hold at the moment.
ForUpdateLocks(p) ==
    UNION {prows[q] : q \in {r \in Producers \ {p} : ppc[r] = "marking"}}

\* fetch_and_mark_batch, first statement: the locking read. It cannot return a
\* row another transaction has locked (it waits for it); no row: rollback.
fetch_select(p) ==
    /\ ppc[p] = "select"
    /\ \E rows \in SUBSET SelectForUpdate(bids) :
        /\ Cardinality(rows) = Min(batch_size, Cardinality(SelectForUpdate(bids)))
        /\ rows \cap ForUpdateLocks(p) = {}
        /\ prows' = [prows EXCEPT ![p] = rows]
        /\ ppc' = [ppc EXCEPT ![p] = IF rows = {} THEN "end_empty" ELSE "marking"]
    /\ UNCHANGED <<bids, queue, batch_size, aside, wpc, wtask>>

\* fetch_and_mark_batch, second statement and conn.commit().
fetch_update(p) ==
    /\ ppc[p] = "marking"
    /\ bids' = MarkQueued(bids, prows[p])
    /\ ppc' = [ppc EXCEPT ![p] = "publish"]
    /\ UNCHANGED <<queue, batch_size, aside, prows, wpc, wtask>>

\* run_loop of a producer among others.
run_loop(p) ==
    \/ fetch_select(p)
    \/ fetch_update(p)
    \/ P_Push(p)
    \/ P_Revert(p)
    \/ P_Loop(p)

\* Any --batch value.
InitProducers ==
    /\ bids = [i \in Items |-> NewRow]
    /\ queue = <<>>
    /\ batch_size \in 1..MaxBatch
    /\ ppc = [p \in Producers |-> "select"]
    /\ prows = [p \in Producers |-> {}]
    /\ wpc = [w \in Workers |-> "idle"]
    /\ wtask = [w \in Workers |-> NoTask]
    /\ AsideInit

NextProducers == \E p \in Producers : run_loop(p)

SpecProducers == InitProducers /\ [][NextProducers]_vars

\* A producer is between its SELECT and the end of a successful iteration.
InIteration(p) == ppc[p] \in {"marking", "publish", "revert", "end_ok"}

\* C12: two producers running fetch_and_mark_batch side by side never hold the
\* same row: the batches of two producers that are in an iteration are
\* disjoint.
C12_DisjointSelection ==
    \A p, q \in Producers :
        (p /= q /\ InIteration(p) /\ InIteration(q))
            => prows[p] \cap prows[q] = {}

\* C12 witness: both producers have marked a batch of their own and are about
\* to publish it.
C12_Witness ==
    \E p, q \in Producers :
        /\ p /= q
        /\ ppc[p] = "publish" /\ prows[p] /= {}
        /\ ppc[q] = "publish" /\ prows[q] /= {}

\* C13: fetch_and_mark_batch returns at most batch_size rows, every one of
\* them new when it was selected, and changes those rows only; a row that is
\* processing or done is neither selected nor modified by the producer.
C13_SelectsOnlyNew ==
    [][\A p \in Producers :
        (ppc[p] = "select" /\ ppc'[p] = "publish")
            => /\ Cardinality(prows'[p]) <= batch_size
               /\ \A i \in prows'[p] : bids[i].status = "new"
               /\ \A i \in Items \ prows'[p] : bids'[i] = bids[i]]_vars

\* The number of descriptors of row i in the list.
Descriptors(q, i) == Cardinality({k \in 1..Len(q) : q[k] = i})

\* C14: the step that completes a successful publish leaves every selected row
\* queued and has added exactly one descriptor for each selected row and none
\* for any other row.
C14_PublishedBatch ==
    [][\A p \in Producers :
        (ppc[p] = "publish" /\ ppc'[p] = "end_ok")
            => /\ \A i \in prows[p] : bids'[i].status = "queued"
               /\ \A i \in Items :
                    Descriptors(queue', i) - Descriptors(queue, i)
                        = IF i \in prows[p] THEN 1 ELSE 0]_vars

\* C15: a descriptor whose claim fails is dropped without side effects. A
\* worker never starts the fetch for a descriptor whose row is done or held
\* (the claim for it must fail), and the step that rejects a claim changes no
\* row.
C15_RejectedIsNoOp ==
    [][\A w \in Workers :
        /\ (wpc[w] /= "download" /\ wpc'[w] = "download")
              => bids[wtask'[w]].status \notin {"processing", "done"}
        /\ (wpc[w] = "claim" /\ wpc'[w] = "end_rejected")
              => bids' = bids]_vars

\* C16: attempt_claim_by_bid on a row that is done returns nothing and changes
\* no row, whichever worker calls it and however often.
C16_ClaimOnDone ==
    [][\A w \in Workers :
        (/\ wpc[w] = "claim"
         /\ wpc'[w] /= "claim"
         /\ bids[wtask[w]].status = "done")
            => /\ wpc'[w] = "end_rejected"
               /\ bids' = bids]_vars

\* C16 witness: a worker has had its claim on a done row rejected, and the row
\* is done with its todayscan still 0.
C16_Witness ==
    \E w \in Workers :
        /\ wpc[w] = "end_rejected"
        /\ bids[wtask[w]].status = "done"
        /\ bids[wtask[w]].todayscan = 0

\* C17: a worker's steps on an item are ordered. The fetch starts only by a
\* successful claim of that worker; the transform starts only after the fetch;
\* mark_done is reached only after the transform.
C17_ClaimBeforeFetch ==
    [][\A w \in Workers :
        /\ (wpc[w] /= "download" /\ wpc'[w] = "download")
              => (wpc[w] = "claim" /\ ClaimWhere(bids[wtask[w]]))
        /\ (wpc[w] /= wpc'[w] /\ wpc'[w] \in {"parse", "extract"})
              => wpc[w] = "download"
        /\ (wpc[w] /= "mark_done" /\ wpc'[w] = "mark_done")
              => wpc[w] \in {"parse", "extract"}]_vars

\* ------------------------------------------------ workers that are killed
\* A consumer.py worker process is killed (kill_processes, Ctrl-C, a crash)
\* after its pop: before the claim, or in the middle of the task. Nothing is
\* written: the descriptor it popped is gone and the row stays as it is.
W_Crash(w) ==
    /\ wpc[w] \in {"claim", "download", "parse", "mark_done"}
    /\ wpc' = [wpc EXCEPT ![w] =
                 IF wpc[w] = "claim" THEN "killed_before_claim"
                                     ELSE "killed_mid_task"]
    /\ UNCHANGED <<bids, queue, batch_size, aside, ppc, prows, wtask>>

\* The worker is started again and enters run_worker from the top.
W_Restart(w) ==
    /\ wpc[w] \in {"killed_before_claim", "killed_mid_task"}
    /\ wpc' = [wpc EXCEPT ![w] = "idle"]
    /\ wtask' = [wtask EXCEPT ![w] = NoTask]
    /\ UNCHANGED <<bids, queue, batch_size, aside, ppc, prows>>

NextCrash ==
    \/ Next
    \/ \E w \in Workers : W_Crash(w)
    \/ \E w \in Workers : W_Restart(w)

SpecCrash == Init /\ [][NextCrash]_vars

\* Fair scheduling with kills: as FairSpec; a killed worker is restarted; a
\* kill is never bound to happen.
FairSpecCrash ==
    /\ SpecCrash
    /\ WF_vars(Producer(TheProducer))
    /\ SF_vars(P_PushOk(TheProducer))
    /\ \A w \in Workers : WF_vars(run_worker(w)) /\ WF_vars(W_Restart(w))

\* Worker w is alive and handling a descriptor of item i.
Delivered(w, i) ==
    /\ wtask[w] = i
    /\ wpc[w] \in {"claim", "download", "parse", "mark_done", "upsert"}

\* C18: a descriptor lost between pop and claim is published again. Whenever
\* a worker was killed before its claim and the row of its descriptor is
\* queued with no descriptor in the list, a descriptor of that row is
\* eventually in the list or in the hands of a live worker.
C18_LostDescriptorRepublished ==
    \A w \in Workers : \A i \in Items :
        (/\ wpc[w] = "killed_before_claim"
         /\ wtask[w] = i
         /\ bids[i].status = "queued"
         /\ Descriptors(queue, i) = 0)
            ~> (Descriptors(queue, i) > 0 \/ \E v \in Workers : Delivered(v, i))

\* C19: a row left in processing by a worker killed in the middle of its task
\* does not stay there: eventually it is failed (or done), or it can be
\* claimed again.
C19_StaleProcessingReset ==
    \A w \in Workers : \A i \in Items :
        (/\ wpc[w] = "killed_mid_task"
         /\ wtask[w] = i
         /\ bids[i].status = "processing")
            ~> (bids[i].status \in {"failed", "done"} \/ ClaimWhere(bids[i]))

\* C20: no per-item error ends a worker. Whatever way the handling of a
\* descriptor ended (rejected claim, recorded failure, exception out of
\* process_task), the worker's loop can take its next step back to the pop.
C20_WorkerSurvives ==
    \A w \in Workers : wpc[w] \in WorkerEnds => ENABLED W_Loop(w)

\* C20 witness: an exception escaped process_task after the claim, the row is
\* still processing, and the worker is back in its loop.
C20_Witness ==
    \E w \in Workers :
        /\ wpc[w] = "end_raised"
        /\ bids[wtask[w]].status = "processing"

\* ------------------------------------------- consumer.py in stream mode
\* redis_helpers.stream_consume_once(group, consumer): the next entry of the
\* stream is delivered to the consumer and enters its pending list.
StreamDeliver(pend, w, i) == pend \cup {<<w, i>>}

\* redis_helpers.ack_message_stream(stream_name, group, msg_id): the entry
\* leaves the pending list.
ack_message_stream(pend, w, i) == pend \ {<<w, i>>}

\* run_worker, stream mode: msgs[0] of stream_consume_once is the message.
S_Consume(w) ==
    /\ wpc[w] = "idle"
    /\ queue /= <<>>
    /\ wtask' = [wtask EXCEPT ![w] = PopMessageValue(queue)]
    /\ queue' = PopMessageRest(queue)
    /\ pending' = StreamDeliver(pending, w, PopMessageValue(queue))
    /\ wpc' = [wpc EXCEPT ![w] = "claim"]
    /\ UNCHANGED <<bids, batch_size, ppc, prows, pushed, popped, dash>>

\* What the ack call can do: succeed, or raise (logged, the entry stays pending).
AckOutcomes == {"acked", "ack_raises"}

\* run_worker, stream mode: process_task has returned (whatever it did) and
\* `stream_mode and 'msg_id' in locals()` holds: ack, then the next iteration.
S_Ack(w) ==
    /\ wpc[w] \in {"end_rejected", "end_done", "end_failed"}
    /\ \E o \in AckOutcomes :
        pending' = IF o = "acked"
                   THEN ack_message_stream(pending, w, wtask[w])
                   ELSE pending
    /\ wpc' = [wpc EXCEPT ![w] = "idle"]
    /\ wtask' = [wtask EXCEPT ![w] = NoTask]
    /\ UNCHANGED <<bids, queue, batch_size, ppc, prows, pushed, popped, dash>>

\* run_worker, stream mode: process_task raised; `except Exception` skips the
\* ack.
S_Raised(w) ==
    /\ wpc[w] = "end_raised"
    /\ wpc' = [wpc EXCEPT ![w] = "idle"]
    /\ wtask' = [wtask EXCEPT ![w] = NoTask]
    /\ UNCHANGED <<bids, queue, batch_size, ppc, prows, aside>>

run_worker_stream(w) ==
    \/ S_Consume(w)
    \/ attempt_claim_by_bid(w)
    \/ W_Download(w)
    \/ W_Parse(w)
    \/ W_MarkDone(w)
    \/ W_Upsert(w)
    \/ S_Ack(w)
    \/ S_Raised(w)

NextStream == Producer(TheProducer) \/ \E w \in Workers : run_worker_stream(w)

SpecStream == Init /\ [][NextStream]_vars

\* C21: in stream mode an entry is acknowledged only after its task succeeded:
\* whenever an entry leaves a pending list, the row it names is done. (No
\* list-mode action changes pending.)
C21_AckOnlyAfterDone ==
    [][\A w \in Workers : \A i \in Items :
        (<<w, i>> \in pending /\ <<w, i>> \notin pending')
            => bids[i].status = "done"]_vars

\* ------------------------------------------------ the transport alone
MaxPushed == 4

\* The tasks number n+1 .. n+k, in order.
RECURSIVE NumberedTasks(_, _)
NumberedTasks(n, k) ==
    IF k = 0 THEN <<>> ELSE <<n + 1>> \o NumberedTasks(n + 1, k - 1)

\* A client calls enqueue_task.
T_EnqueueTask ==
    /\ pushed < MaxPushed
    /\ queue' = enqueue_task(queue, pushed + 1)
    /\ pushed' = pushed + 1
    /\ UNCHANGED <<bids, batch_size, ppc, prows, wpc, wtask, pending, popped, dash>>

\* A client calls enqueue_batch with a list of k tasks.
T_EnqueueBatch ==
    /\ \E k \in 1..MaxBatch :
        /\ pushed + k <= MaxPushed
        /\ queue' = enqueue_batch(queue, NumberedTasks(pushed, k))
        /\ pushed' = pushed + k
    /\ UNCHANGED <<bids, batch_size, ppc, prows, wpc, wtask, pending, popped, dash>>

\* A worker calls pop_task (BRPOP, or RPOP with block=False): the right end
\* leaves the list and is returned; on an empty list the call returns None
\* (after the timeout, or at once).
T_PopTask(w) ==
    /\ wpc[w] = "idle"
    /\ IF queue = <<>>
       THEN /\ wpc' = [wpc EXCEPT ![w] = "pop_none"]
            /\ UNCHANGED <<queue, wtask, popped>>
       ELSE /\ wtask' = [wtask EXCEPT ![w] = BrpopValue(queue)]
            /\ queue' = BrpopRest(queue)
            /\ popped' = Append(popped, BrpopValue(queue))
            /\ wpc' = [wpc EXCEPT ![w] = "pop_task"]
    /\ UNCHANGED <<bids, batch_size, ppc, prows, pending, pushed, dash>>

\* The caller has its answer and will call again.
T_Return(w) ==
    /\ wpc[w] \in {"pop_none", "pop_task"}
    /\ wpc' = [wpc EXCEPT ![w] = "idle"]
    /\ wtask' = [wtask EXCEPT ![w] = NoTask]
    /\ UNCHANGED <<bids, queue, batch_size, ppc, prows, aside>>

NextTransport ==
    \/ T_EnqueueTask
    \/ T_EnqueueBatch
    \/ \E w \in Workers : T_PopTask(w)
    \/ \E w \in Workers : T_Return(w)

SpecTransport == Init /\ [][NextTransport]_vars

\* C22: the list transport is first in, first out: the tasks come out of the
\* pops in the order they were pushed, the k-th pop returns the k-th task.
C22_Fifo ==
    \A k \in 1..Len(popped) : popped[k] = k

\* C22 witness: tasks pushed one by one and in a batch have all been popped
\* while later pushes happened between the pops.
C22_Witness ==
    /\ Len(popped) >= 3
    /\ pushed > Len(popped)
    /\ queue /= <<>>

\* C23: every pushed task is returned by at most one pop and is either still
\* in the list or popped; a pop on the empty list returns no task and leaves
\* the list as it is.
PoppedOnce ==
    /\ \A t \in 1..pushed :
          Cardinality({k \in 1..Len(popped) : popped[k] = t})
            + Cardinality({k \in 1..Len(queue) : queue[k] = t}) = 1
    /\ \A v, w \in Workers :
          (v /= w /\ wpc[v] = "pop_task" /\ wpc[w] = "pop_task")
              => wtask[v] /= wtask[w]

EmptyPopIsNoOp ==
    \A w \in Workers :
        (wpc[w] = "idle" /\ wpc'[w] /= "idle" /\ queue = <<>>)
            => /\ wpc'[w] = "pop_none"
               /\ wtask'[w] = NoTask
               /\ queue' = queue
               /\ popped' = popped

C23_PopOnce == []PoppedOnce /\ [][EmptyPopIsNoOp]_vars

\* C23 witness: two workers popped at the same time and hold different tasks,
\* with more tasks still in the list.
C23_Witness ==
    \E v, w \in Workers :
        /\ v /= w
        /\ wpc[v] = "pop_task" /\ wpc[w] = "pop_task"
        /\ wtask[v] /= wtask[w]
        /\ queue /= <<>>

\* C24: attempts never decreases, and a failed fetch or transform is counted
\* once: the worker that has counted the failure (safe_increment_attempts)
\* adds nothing more when it records the failed status.
C24_CountedOnce ==
    [][/\ \A i \in Items : bids'[i].attempts >= bids[i].attempts
       /\ \A w \in Workers :
            (wpc[w] = "mark_error" /\ wpc'[w] = "end_failed")
                => bids'[wtask[w]].attempts = bids[wtask[w]].attempts]_vars

\* ------------------------------------------ utils/status_helpers.py
_RETRY_ATTEMPTS == 12
DefaultMaxItems == 80
MaxRecent == 2
MaxEvents == 4

\* The document, as far as the model follows it: the counters enqueued,
\* in_progress, processed, done, failed and the recent list. {} reads as 0 and [] through s.get(key, default).
EmptyDoc == [text |-> "whole", enqueued |-> 0, in_progress |-> 0,
          processed |-> 0, done |-> 0, failed |-> 0, recent |-> <<>>]

\* status.json does not exist / holds a truncated or half-written text.
Missing == [EmptyDoc EXCEPT !.text = "missing"]
Torn == [EmptyDoc EXCEPT !.text = "torn"]

\* read_status: {} when the file is missing or json.loads raises.
read_status(f) == IF f.text = "whole" THEN f ELSE EmptyDoc

\* increment, before the write: s[key] = s.get(key, 0) + delta. A key the
\* model does not follow leaves the followed part as it is.
increment(s, key, delta) ==
    IF key \in DOMAIN s THEN [s EXCEPT ![key] = @ + delta] ELSE s

\* push_recent, before the write: rec.insert(0, item); rec[:max_items]
push_recent(s, item, max_items) ==
    [s EXCEPT !.recent = SubSeq(<<item>> \o @, 1, Min(max_items, Len(@) + 1))]

\* snapshot_counts with no counter given: message, stage and the queue length
\* are set, the followed part is written back as read.
snapshot_counts(s) == s

\* Every variable the file writer leaves alone.
beside_writer ==
    <<bids, queue, batch_size, ppc, prows, wpc, wtask,
      pending, pushed, popped, sidx, once, mon, conc, calls, evlog>>

\* A helper is entered with the document it is about to write: _safe_write.
CallHelper(doc) ==
    /\ spc = "idle"
    /\ spc' = "mkdir"
    /\ sdata' = doc
    /\ tries' = 0
    /\ UNCHANGED <<file, sret>>

\* The caller takes the helper's answer.
HelperReturns ==
    /\ spc = "returned"
    /\ spc' = "idle"
    /\ sdata' = Missing
    /\ tries' = 0
    /\ sret' = FALSE
    /\ UNCHANGED file

\* _atomic_write: dirpath.mkdir, outside the retry loop and its try; when it
\* raises, _safe_write's except answers False.
St_Mkdir ==
    /\ spc = "mkdir"
    /\ \E o \in {"ok", "mkdir_raises"} :
        IF o = "ok"
        THEN /\ spc' = "replace"
             /\ UNCHANGED sret
        ELSE /\ spc' = "returned"
             /\ sret' = FALSE
    /\ UNCHANGED <<file, sdata, tries>>
    /\ UNCHANGED beside_writer

\* _atomic_write, one turn of the loop: mkstemp, write, fsync, os.replace. The
\* replace puts the whole new text in place; when it (or anything before it)
\* raises the temp file is removed and the loop goes on, up to
\* _RETRY_ATTEMPTS turns.
St_Replace ==
    /\ spc = "replace"
    /\ tries < _RETRY_ATTEMPTS
    /\ tries' = tries + 1
    /\ \E o \in {"replaced", "raises"} :
        IF o = "replaced"
        THEN /\ file' = sdata
             /\ spc' = "returned"
             /\ sret' = TRUE
        ELSE /\ spc' = IF tries + 1 = _RETRY_ATTEMPTS THEN "overwrite" ELSE "replace"
             /\ UNCHANGED <<file, sret>>
    /\ UNCHANGED sdata
    /\ UNCHANGED beside_writer

\* _atomic_write, after the loop: open(path, "w") truncates the target.
St_Overwrite ==
    /\ spc = "overwrite"
    /\ \E o \in {"truncated", "open_raises"} :
        IF o = "truncated"
        THEN /\ file' = Torn
             /\ spc' = "overwriting"
        ELSE /\ spc' = "write_text"
             /\ UNCHANGED file
    /\ UNCHANGED <<sdata, tries, sret>>
    /\ UNCHANGED beside_writer

\* _atomic_write, after the loop: f.write(data) into the truncated target.
St_OverwriteWrite ==
    /\ spc = "overwriting"
    /\ \E o \in {"written", "write_raises"} :
        IF o = "written"
        THEN /\ file' = sdata
             /\ spc' = "returned"
             /\ sret' = TRUE
        ELSE /\ spc' = "write_text"
             /\ UNCHANGED <<file, sret>>
    /\ UNCHANGED <<sdata, tries>>
    /\ UNCHANGED beside_writer

\* _safe_write, _atomic_write answered False: STATUS_PATH.write_text opens the
\* target for writing.
St_WriteText ==
    /\ spc = "write_text"
    /\ \E o \in {"truncated", "open_raises"} :
        IF o = "truncated"
        THEN /\ file' = Torn
             /\ spc' = "writing_text"
             /\ UNCHANGED sret
        ELSE /\ spc' = "returned"
             /\ sret' = FALSE
             /\ UNCHANGED file
    /\ UNCHANGED <<sdata, tries>>
    /\ UNCHANGED beside_writer

\* _safe_write: write_text writes the text, or raises and False is answered.
St_WriteTextWrite ==
    /\ spc = "writing_text"
    /\ \E o \in {"written", "write_raises"} :
        IF o = "written"
        THEN /\ file' = sdata
             /\ sret' = TRUE
        ELSE /\ sret' = FALSE
             /\ UNCHANGED file
    /\ spc' = "returned"
    /\ UNCHANGED <<sdata, tries>>
    /\ UNCHANGED beside_writer

_safe_write ==
    \/ St_Mkdir
    \/ St_Replace
    \/ St_Overwrite
    \/ St_OverwriteWrite
    \/ St_WriteText
    \/ St_WriteTextWrite

\* A process pushes its next event with the cap MaxRecent.
C_PushRecent ==
    /\ calls < MaxEvents
    /\ calls' = calls + 1
    /\ CallHelper(push_recent(read_status(file), calls + 1, MaxRecent))
    /\ UNCHANGED <<bids, queue, batch_size, ppc, prows, wpc, wtask,
                   pending, pushed, popped, sidx, once, mon, conc, evlog>>

\* push_recent returns what _safe_write answered.
C_Return ==
    /\ HelperReturns
    /\ evlog' = IF sret THEN Append(evlog, calls) ELSE evlog
    /\ UNCHANGED <<bids, queue, batch_size, ppc, prows, wpc, wtask,
                   pending, pushed, popped, sidx, once, mon, conc, calls>>

NextStatus == C_PushRecent \/ C_Return \/ _safe_write

SpecStatus == Init /\ [][NextStatus]_vars

\* The last n entries of a log, the newest first.
RECURSIVE Newest(_, _)
Newest(log, n) ==
    IF n = 0 \/ log = <<>> THEN <<>>
    ELSE <<log[Len(log)]>> \o Newest(SubSeq(log, 1, Len(log) - 1), n - 1)

\* C25: between two push_recent calls with the cap max_items the recent list
\* holds the events pushed so far, the newest first, cut to max_items: the
\* oldest are dropped first.
C25_RecentIsNewestFirst ==
    spc = "idle" => read_status(file).recent = Newest(evlog, MaxRecent)

\* C26: the status file never holds a partially written document.
C26_NeverTorn == file /= Torn

\* ------------------- master_gem_extraction: the producer, then a consumer
\* The consumer_redis worker the master starts once the producer is back.
StatusWorker == 1

\* The key of the producer's batch event.
BATCH == 0

\* The status helpers each caller runs, in the order of the code.
ReportCalls == <<"inc_enqueued", "recent_batch", "snapshot_counts">>
StartCalls == <<"inc_in_progress", "recent_started", "snapshot_queue_and_workers">>
FinalCalls ==
    <<"inc_processed", "inc_outcome", "recent_outcome", "dec_in_progress",
      "snapshot_counts", "snapshot_queue_and_workers">>

\* _snapshot_queue_and_workers swallows every exception; the other helpers
\* raise when the document read is not what they expect (s[key] = ... on a
\* document that is not an object or holds a non-number).
CanRaise(h) == h /= "snapshot_queue_and_workers"

\* The document a helper of the producer is about to write.
ProducerDoc(p, h, s) ==
    CASE h = "inc_enqueued" -> increment(s, "enqueued", Cardinality(prows[p]))
      [] h = "recent_batch" -> push_recent(s, <<BATCH, "enqueued">>, DefaultMaxItems)
      [] OTHER -> snapshot_counts(s)

\* The document a helper of the worker is about to write.
WorkerDoc(w, h, s) ==
    CASE h = "inc_in_progress" -> increment(s, "in_progress", 1)
      [] h = "recent_started" -> push_recent(s, <<wtask[w], "started">>, DefaultMaxItems)
      [] h = "inc_processed" -> increment(s, "processed", 1)
      [] h = "inc_outcome" ->
            increment(s, IF wpc[w] = "end_done" THEN "done" ELSE "failed", 1)
      [] h = "recent_outcome" ->
            push_recent(s, <<wtask[w], IF wpc[w] = "end_done" THEN "done" ELSE "failed">>,
                        DefaultMaxItems)
      [] h = "dec_in_progress" -> increment(s, "in_progress", 0 - 1)
      [] OTHER -> snapshot_counts(s)

IterationEnds == {"end_empty", "end_reported", "end_reverted", "end_error"}

\* run_loop: get_db_conn or fetch_and_mark_batch raises; nothing is committed
\* and the except of the loop logs it.
PS_Raise(p) ==
    /\ ppc[p] = "select"
    /\ ppc' = [ppc EXCEPT ![p] = "end_error"]
    /\ UNCHANGED <<bids, queue, batch_size, prows, wpc, wtask, aside>>

\* run_loop, push ok: the next status helper of the try block is called.
PS_Call(p) ==
    /\ ppc[p] = "end_ok"
    /\ sidx < Len(ReportCalls)
    /\ CallHelper(ProducerDoc(p, ReportCalls[sidx + 1], read_status(file)))
    /\ sidx' = sidx + 1
    /\ UNCHANGED <<bids, queue, batch_size, ppc, prows, wpc, wtask,
                   pending, pushed, popped, once, mon, conc, calls, evlog>>

\* A failed status update is taken for a failed push.
PS_HelperRaisesReverts(p) ==
    /\ ppc[p] = "end_ok"
    /\ spc = "idle"
    /\ sidx < Len(ReportCalls)
    /\ CanRaise(ReportCalls[sidx + 1])
    /\ ppc' = [ppc EXCEPT ![p] = "revert"]
    /\ sidx' = 0
    /\ UNCHANGED <<bids, queue, batch_size, prows, wpc, wtask,
                   pending, pushed, popped, file, spc, sdata, tries, sret,
                   once, mon, conc, calls, evlog>>

\* run_loop, push ok: a status helper raises; the except around the three
\* calls logs "non-fatal" and the iteration ends as after a report.
PS_HelperRaises(p) ==
    /\ ppc[p] = "end_ok"
    /\ spc = "idle"
    /\ sidx < Len(ReportCalls)
    /\ CanRaise(ReportCalls[sidx + 1])
    /\ ppc' = [ppc EXCEPT ![p] = "end_reported"]
    /\ sidx' = 0
    /\ UNCHANGED <<bids, queue, batch_size, prows, wpc, wtask,
                   pending, pushed, popped, file, spc, sdata, tries, sret,
                   once, mon, conc, calls, evlog>>

\* run_loop, push ok: the helper returns (its answer is not looked at).
PS_Return(p) ==
    /\ ppc[p] = "end_ok"
    /\ HelperReturns
    /\ IF sidx = Len(ReportCalls)
       THEN /\ ppc' = [ppc EXCEPT ![p] = "end_reported"]
            /\ sidx' = 0
       ELSE UNCHANGED <<ppc, sidx>>
    /\ UNCHANGED <<bids, queue, batch_size, prows, wpc, wtask,
                   pending, pushed, popped, once, mon, conc, calls, evlog>>

\* The end of an iteration where only a clean iteration looks at once.
PS_NextOnlyIfClean(p) ==
    /\ ppc[p] \in IterationEnds
    /\ ppc' = [ppc EXCEPT ![p] =
                 IF once /\ ppc[p] /= "end_error" THEN "exited" ELSE "select"]
    /\ prows' = [prows EXCEPT ![p] = {}]
    /\ UNCHANGED <<bids, queue, batch_size, wpc, wtask, aside>>

\* run_loop, after the try/except: if once: break, else sleep and loop.
PS_Next(p) ==
    /\ ppc[p] \in IterationEnds
    /\ ppc' = [ppc EXCEPT ![p] = IF once THEN "exited" ELSE "select"]
    /\ prows' = [prows EXCEPT ![p] = {}]
    /\ UNCHANGED <<bids, queue, batch_size, wpc, wtask, aside>>

run_loop_status(p) ==
    \/ P_FetchAndMark(p)
    \/ P_Push(p)
    \/ P_Revert(p)
    \/ PS_Raise(p)
    \/ PS_Call(p)
    \/ PS_HelperRaises(p)
    \/ PS_Return(p)
    \/ PS_Next(p)

\* The helpers of the block the worker is in.
WorkerCalls(w) == IF wpc[w] = "report_start" THEN StartCalls ELSE FinalCalls

\* consumer_loop: BRPOP; the master starts the consumers when run_producer
\* (a blocking subprocess.run of the producer with --once) has returned.
RS_Pop(w) ==
    /\ ppc[TheProducer] = "exited"
    /\ wpc[w] = "idle"
    /\ queue /= <<>>
    /\ wtask' = [wtask EXCEPT ![w] = BrpopValue(queue)]
    /\ queue' = BrpopRest(queue)
    /\ wpc' = [wpc EXCEPT ![w] = "report_start"]
    /\ UNCHANGED <<bids, batch_size, aside, ppc, prows>>

\* The worker leaves a status block: to process_task after the first, to the
\* next BRPOP after the second.
LeaveBlock(w) ==
    /\ wpc' = [wpc EXCEPT ![w] = IF wpc[w] = "report_start" THEN "download" ELSE "idle"]
    /\ wtask' = [wtask EXCEPT ![w] = IF wpc[w] = "report_start" THEN @ ELSE NoTask]
    /\ sidx' = 0

\* consumer_loop: the next status helper of the block is called.
RS_Call(w) ==
    /\ wpc[w] \in {"report_start", "end_done", "end_failed"}
    /\ sidx < Len(WorkerCalls(w))
    /\ CallHelper(WorkerDoc(w, WorkerCalls(w)[sidx + 1], read_status(file)))
    /\ sidx' = sidx + 1
    /\ UNCHANGED <<bids, queue, batch_size, ppc, prows, wpc, wtask,
                   pending, pushed, popped, once, mon, conc, calls, evlog>>

\* consumer_loop: a status helper raises. The except of the block skips the
\* rest of it; the inner except around increment('in_progress', -1) goes on
\* with snapshot_counts().
RS_HelperRaises(w) ==
    /\ wpc[w] \in {"report_start", "end_done", "end_failed"}
    /\ spc = "idle"
    /\ sidx < Len(WorkerCalls(w))
    /\ CanRaise(WorkerCalls(w)[sidx + 1])
    /\ IF WorkerCalls(w)[sidx + 1] = "dec_in_progress"
       THEN /\ sidx' = sidx + 1
            /\ UNCHANGED <<wpc, wtask>>
       ELSE LeaveBlock(w)
    /\ UNCHANGED <<bids, queue, batch_size, ppc, prows,
                   pending, pushed, popped, file, spc, sdata, tries, sret,
                   once, mon, conc, calls, evlog>>

\* consumer_loop: the helper returns (its answer is not looked at). After
\* increment('in_progress', -1) the snapshot_counts() of its except is skipped.
RS_Return(w) ==
    /\ wpc[w] \in {"report_start", "end_done", "end_failed"}
    /\ HelperReturns
    /\ LET done == IF WorkerCalls(w)[sidx] = "dec_in_progress" THEN sidx + 1 ELSE sidx
       IN  IF done = Len(WorkerCalls(w))
           THEN LeaveBlock(w)
           ELSE /\ sidx' = done
                /\ UNCHANGED <<wpc, wtask>>
    /\ UNCHANGED <<bids, queue, batch_size, ppc, prows,
                   pending, pushed, popped, once, mon, conc, calls, evlog>>

consumer_loop_status(w) ==
    \/ RS_Pop(w)
    \/ RS_Call(w)
    \/ RS_HelperRaises(w)
    \/ RS_Return(w)
    \/ R_Download(w)
    \/ R_Extract(w)
    \/ R_MarkDone(w)
    \/ R_MarkError(w)

InitMaster ==
    /\ bids = [i \in Items |-> NewRow]
    /\ queue = <<>>
    /\ batch_size \in 1..MaxBatch
    /\ ppc = [p \in Producers |-> "select"]
    /\ prows = [p \in Producers |-> {}]
    /\ wpc = [w \in Workers |-> "idle"]
    /\ wtask = [w \in Workers |-> NoTask]
    /\ pending = {}
    /\ pushed = 0
    /\ popped = <<>>
    /\ file = Missing
    /\ spc = "idle"
    /\ sdata = Missing
    /\ tries = 0
    /\ sret = FALSE
    /\ sidx = 0
    /\ once \in BOOLEAN
    /\ calls = 0
    /\ evlog = <<>>
    /\ mpc = "polling"
    /\ last_len = NoLength
    /\ stable = 0
    /\ zeros = 0
    /\ ipc = [q \in Producers |-> "idle"]
    /\ idoc = [q \in Producers |-> [text |-> "missing", enqueued |-> 0, in_progress |-> 0,
          processed |-> 0, done |-> 0, failed |-> 0, recent |-> <<>>]]
    /\ applied = 0

NextMaster ==
    \/ run_loop_status(TheProducer)
    \/ consumer_loop_status(StatusWorker)
    \/ _safe_write

SpecMaster == InitMaster /\ [][NextMaster]_vars

\* The caller's effects on the rows and on the list do not depend on what its
\* status block does: inside a block nothing of them changes, and a block is
\* left only for the step that follows a block whose writes all succeeded.
StatusBlockIsSideEffectFree ==
    /\ ppc[TheProducer] = "end_ok" =>
          /\ UNCHANGED <<bids, queue, prows>>
          /\ ppc'[TheProducer] \in {"end_ok", "end_reported"}
    /\ wpc[StatusWorker] = "report_start" =>
          /\ UNCHANGED <<bids, queue, wtask>>
          /\ wpc'[StatusWorker] \in {"report_start", "download"}
    /\ wpc[StatusWorker] \in {"end_done", "end_failed"} =>
          /\ UNCHANGED <<bids, queue>>
          /\ wpc'[StatusWorker] \in {wpc[StatusWorker], "idle"}

\* _atomic_write stops trying to replace after _RETRY_ATTEMPTS attempts.
BoundedReplaceAttempts ==
    /\ tries \in 0.._RETRY_ATTEMPTS
    /\ spc \in {"overwrite", "overwriting", "write_text", "writing_text"}
          => tries = _RETRY_ATTEMPTS
    /\ spc = "replace" => tries < _RETRY_ATTEMPTS

PublishedRows == {i \in Items : bids[i].todayscan = QUEUED_TODAYSCAN}

\* C28: outside a running iteration the enqueued counter is the number of
\* rows published: each iteration whose publish succeeded adds its rows, an
\* iteration without rows or with a failed publish adds nothing.
C28_EnqueuedIsPublished ==
    ppc[TheProducer] \in (IterationEnds \cup {"select", "exited"})
        => read_status(file).enqueued = Cardinality(PublishedRows)

\* What the end of an iteration does with once.
OnceDecidesAtTheEnd ==
    \A p \in {TheProducer} :
        /\ (ppc[p] \in IterationEnds /\ ppc'[p] /= ppc[p])
              => ppc'[p] = IF once THEN "exited" ELSE "select"
        /\ ppc[p] = "exited" => ppc'[p] = "exited"
        /\ (ppc'[p] = "select" /\ ppc[p] /= "select") => ~once
        /\ ppc'[p] = "exited" => once
        /\ once' = once

\* C29: with once the producer runs one iteration and terminates, however
\* the iteration ended (published, no rows, reverted, raised); without it the
\* producer never terminates and every iteration end leads to a new
\* iteration.
C29_OnceRunsOnce ==
    /\ [](\A p \in {TheProducer} : ppc[p] \in IterationEnds => ENABLED PS_Next(p))
    /\ [](\A p \in {TheProducer} : ppc[p] = "exited" => ~ENABLED run_loop_status(p))
    /\ [][OnceDecidesAtTheEnd]_vars

\* C29 witness: with once, the producer is gone after an iteration that
\* published nothing (it raised, or its push failed and was reverted).
C29_Witness ==
    /\ once
    /\ ppc[TheProducer] = "exited"
    /\ \A i \in Items : bids[i].status = "new"
    /\ queue = <<>>

\* C30: a worker that has finished a descriptor has left an event with the
\* item's key and its outcome (done or failed) in the recent list.
C30_OutcomeEventLogged ==
    \A w \in Workers :
        wpc[w] \in {"end_done", "end_failed"} =>
            \E k \in 1..Len(read_status(file).recent) :
                read_status(file).recent[k] =
                    <<wtask[w], IF wpc[w] = "end_done" THEN "done" ELSE "failed">>

\* ------------------------------------- the producer when the revert fails
\* run_loop: revert_rows_to_new raises (the UPDATE or its commit fails, the
\* connection is gone); the except of the loop logs it and nothing is undone.
P_RevertRaises(p) ==
    /\ ppc[p] = "revert"
    /\ ppc' = [ppc EXCEPT ![p] = "end_error"]
    /\ UNCHANGED <<bids, queue, batch_size, aside, prows, wpc, wtask>>

\* run_loop: after the except as after the try, sleep and loop.
P_LoopAfterError(p) ==
    /\ ppc[p] = "end_error"
    /\ ppc' = [ppc EXCEPT ![p] = "select"]
    /\ prows' = [prows EXCEPT ![p] = {}]
    /\ UNCHANGED <<bids, queue, batch_size, aside, wpc, wtask>>

run_loop_faults(p) ==
    \/ Producer(p)
    \/ P_RevertRaises(p)
    \/ P_LoopAfterError(p)

NextFaults == \E p \in Producers : run_loop_faults(p)

SpecFaults == InitProducers /\ [][NextFaults]_vars

\* C31: the step that ends a producer iteration leaves every row the
\* iteration marked queued with a descriptor in the list or with status new.
C31_NoStrandedRow ==
    [][\A p \in Producers :
         (ppc[p] \notin (IterationEnds \cup {"end_ok"})
            /\ ppc'[p] \in (IterationEnds \cup {"end_ok"}))
         => \A i \in prows'[p] :
               Descriptors(queue', i) > 0 \/ bids'[i].status = "new"]_vars

\* C32: the revert step resets no row that a worker has moved to processing,
\* done or failed, and leaves no descriptor of a reverted row in the list.
C32_RevertOnlyQueued ==
    [][\A p \in Producers :
         (ppc[p] = "revert" /\ ppc'[p] = "end_reverted")
         => /\ \A i \in Items :
                 bids[i].status \in {"processing", "done", "failed"}
                     => bids'[i].status = bids[i].status
            /\ \A i \in prows[p] : Descriptors(queue', i) = 0]_vars

\* -------------------------------- attempt_claim_by_bid with database errors
\* What a database error during attempt_claim_by_bid leaves behind: raised by
\* get_connection, execute or commit the UPDATE is not applied; raised by the
\* SELECT after conn.commit() the UPDATE stays. Either way the except answers
\* None.
ClaimErrors == {"error_before_commit", "error_after_commit"}

attempt_claim_db_error(w) ==
    /\ wpc[w] = "claim"
    /\ \E o \in ClaimErrors :
        IF o = "error_after_commit" /\ ClaimWhere(bids[wtask[w]])
        THEN /\ bids[wtask[w]].attempts < MaxAttempts
             /\ bids' = [bids EXCEPT ![wtask[w]] = ClaimSet(@, WORKER_ID)]
        ELSE UNCHANGED bids
    /\ wpc' = [wpc EXCEPT ![w] = "end_rejected"]
    /\ UNCHANGED <<queue, batch_size, aside, ppc, prows, wtask>>

NextClaimErrors ==
    \/ Next
    \/ \E w \in Workers : attempt_claim_db_error(w)

SpecClaimErrors == Init /\ [][NextClaimErrors]_vars

\* C33: a claim that answers None leaves the row as it was before the call.
C33_FailedClaimLeavesRow ==
    [][\A w \in Workers :
         (wpc[w] = "claim" /\ wpc'[w] = "end_rejected")
         => bids'[wtask[w]] = bids[wtask[w]]]_vars

\* ------------------------------------------- consumer.py in DB-poll mode
\* db_helpers.claim_batch(batch_size=1, worker_id): the rows it may claim, by
\* the claim condition of the design (status new, queued or failed).
claim_batch_where(r) == r.status \in {"new", "queued", "failed"}

\* run_worker, neither list nor stream mode: claim_batch hands one claimed
\* row (processing, held by the worker, attempts + 1) to process_task; no
\* row: sleep and poll again.
D_ClaimBatch(w) ==
    /\ wpc[w] = "idle"
    /\ \E i \in {j \in Items : claim_batch_where(bids[j])} :
        /\ bids[i].attempts < MaxAttempts
        /\ bids' = [bids EXCEPT ![i] = ClaimSet(@, WORKER_ID)]
        /\ wtask' = [wtask EXCEPT ![w] = i]
    /\ wpc' = [wpc EXCEPT ![w] = "claim"]
    /\ UNCHANGED <<queue, batch_size, aside, ppc, prows>>

run_worker_dbpoll(w) ==
    \/ D_ClaimBatch(w)
    \/ attempt_claim_by_bid(w)
    \/ W_Download(w)
    \/ W_Parse(w)
    \/ W_MarkDone(w)
    \/ W_Upsert(w)
    \/ W_Loop(w)

NextDbPoll ==
    \/ Producer(TheProducer)
    \/ \E w \in Workers : run_worker_dbpoll(w)

SpecDbPoll == Init /\ [][NextDbPoll]_vars

\* C34: when the worker starts its next iteration, the row claim_batch gave
\* it has reached done or failed.
C34_ClaimedRowIsProcessed ==
    [][\A w \in Workers :
         (wpc[w] \in WorkerEnds /\ wpc'[w] = "idle")
         => bids[wtask[w]].status \in {"done", "failed"}]_vars

\* --------------------- master_gem_extraction: the monitor and the consumers
empty_stable_cycles == 3

\* What r.llen(QUEUE_NAME) can do: answer the length, or raise (the monitor
\* then takes the previous reading).
LlenOutcomes == {"read", "llen_raises"}

\* safe_snapshot_counts(queue_len=qlen), as the file is left: the document
\* written back, the file as it was (the write failed and is swallowed), or
\* the truncated target of a fallback write that failed.
safe_snapshot_counts(f) == {snapshot_counts(read_status(f)), f, Torn}

\* monitor_queue_and_wait, one turn of its loop.
M_Poll ==
    /\ mpc = "polling"
    /\ \E o \in LlenOutcomes :
        LET qlen == IF o = "read" THEN Len(queue) ELSE last_len
            stable_now == IF qlen /= last_len THEN 0
                          ELSE IF qlen = 0 THEN stable + 1 ELSE 0
        IN  /\ last_len' = qlen
            /\ stable' = stable_now
            /\ zeros' = IF o = "read" /\ qlen = 0 /\ qlen = last_len
                        THEN zeros + 1 ELSE 0
            /\ mpc' = IF qlen = 0 /\ stable_now >= empty_stable_cycles
                      THEN "returned" ELSE "polling"
            /\ file' \in IF qlen /= last_len
                          THEN safe_snapshot_counts(file) ELSE {file}
    /\ UNCHANGED <<bids, queue, batch_size, ppc, prows, wpc, wtask,
                   pending, pushed, popped,
                   spc, sdata, tries, sret, sidx, once, conc, calls, evlog>>

\* main: monitor_queue_and_wait has returned, kill_processes(consumer_procs).
M_Kill ==
    /\ mpc = "returned"
    /\ mpc' = "killed"
    /\ UNCHANGED <<bids, queue, batch_size, ppc, prows, wpc, wtask,
                   pending, pushed, popped,
                   file, spc, sdata, tries, sret, sidx, once, conc, calls, evlog,
                   last_len, stable, zeros>>

\* main after run_producer: the producer (--once) has marked the rows queued
\* and pushed their descriptors, the consumers are started.
InitMonitor ==
    /\ bids = [i \in Items |->
                [status |-> "queued", todayscan |-> QUEUED_TODAYSCAN,
                 locked_by |-> NULL, attempts |-> 0]]
    /\ queue = enqueue_batch(<<>>, SortedSeq(Items))
    /\ batch_size = MaxBatch
    /\ ppc = [p \in Producers |-> IF p = TheProducer THEN "exited" ELSE "select"]
    /\ prows = [p \in Producers |-> {}]
    /\ wpc = [w \in Workers |-> "idle"]
    /\ wtask = [w \in Workers |-> NoTask]
    /\ AsideInit

\* The consumers run until they are terminated.
NextMonitor ==
    \/ M_Poll
    \/ M_Kill
    \/ (mpc /= "killed" /\ \E w \in Workers : consumer_loop(w))

SpecMonitor == InitMonitor /\ [][NextMonitor]_vars

\* C35: when the consumers are terminated no dequeued task is in progress:
\* every worker is waiting for a task or has made its terminal write.
C35_KillOnlyWhenIdle ==
    mpc = "killed" =>
        \A w \in Workers : wpc[w] \in {"idle", "end_done", "end_failed"}

\* C36: monitor_queue_and_wait returns only after the length was read as 0
\* on empty_stable_cycles polls in a row, each equal to the reading before.
C36_ReturnsAfterStableZeros ==
    mpc = "returned" => zeros >= empty_stable_cycles

\* ------------------------ status_helpers called from several processes
\* _LOCK is a threading.Lock of the calling process: it orders the threads of
\* one process and nothing else. Every process (the master, the producer,
\* each consumer) imports the module and has a lock of its own, so between
\* one process's read_status and its _safe_write another process can run.
\* The writes here all succeed (os.replace puts the whole text in place).

\* increment("enqueued", 1): with _LOCK, s = read_status(), s[key] += delta.
I_Increment(q) ==
    /\ ipc[q] = "idle"
    /\ calls < MaxEvents
    /\ calls' = calls + 1
    /\ idoc' = [idoc EXCEPT ![q] = increment(read_status(file), "enqueued", 1)]
    /\ ipc' = [ipc EXCEPT ![q] = "write_increment"]
    /\ UNCHANGED <<bids, queue, batch_size, ppc, prows, wpc, wtask,
                   pending, pushed, popped,
                   file, spc, sdata, tries, sret, sidx, once, mon, evlog, applied>>

\* push_recent(item): with _LOCK, s = read_status(), rec.insert(0, item),
\* s['recent'] = rec[:max_items]. The events are numbered.
I_PushRecent(q) ==
    /\ ipc[q] = "idle"
    /\ calls < MaxEvents
    /\ calls' = calls + 1
    /\ idoc' = [idoc EXCEPT
                  ![q] = push_recent(read_status(file), calls + 1, DefaultMaxItems)]
    /\ ipc' = [ipc EXCEPT ![q] = "write_push_recent"]
    /\ UNCHANGED <<bids, queue, batch_size, ppc, prows, wpc, wtask,
                   pending, pushed, popped,
                   file, spc, sdata, tries, sret, sidx, once, mon, evlog, applied>>

\* return _safe_write(s): the document the process built replaces the file.
I_Write(q) ==
    /\ ipc[q] \in {"write_increment", "write_push_recent"}
    /\ file' = idoc[q]
    /\ applied' = IF ipc[q] = "write_increment" THEN applied + 1 ELSE applied
    /\ evlog' = IF ipc[q] = "write_push_recent"
                THEN Append(evlog, Head(idoc[q].recent)) ELSE evlog
    /\ ipc' = [ipc EXCEPT ![q] = "idle"]
    /\ UNCHANGED <<bids, queue, batch_size, ppc, prows, wpc, wtask,
                   pending, pushed, popped,
                   spc, sdata, tries, sret, sidx, once, mon, calls, idoc>>

NextConcurrent ==
    \E q \in Producers : I_Increment(q) \/ I_PushRecent(q) \/ I_Write(q)

SpecConcurrent == Init /\ [][NextConcurrent]_vars

\* C37: when no helper is running, the counter is its initial value (0) plus
\* every delta whose increment returned, and every event pushed is in recent
\* (fewer than max_items events are pushed).
C37_NoLostUpdate ==
    (\A q \in Producers : ipc[q] = "idle") =>
        /\ read_status(file).enqueued = applied
        /\ \A k \in 1..Len(evlog) :
             \E j \in 1..Len(read_status(file).recent) :
                read_status(file).recent[j] = evlog[k]

\* C38: one consumer_redis worker and the document it reports to. Between two
\* tasks processed = done + failed and in_progress is back at the value it
\* had before the task was dequeued (0: nobody else changes it); in_progress
\* is never negative.
C38_CountersBalance ==
    /\ read_status(file).in_progress >= 0
    /\ wpc[StatusWorker] = "idle" =>
          /\ read_status(file).processed
                = read_status(file).done + read_status(file).failed
          /\ read_status(file).in_progress = 0

====
